---------------------------- MODULE Spec2Model ----------------------------
(***************************************************************************)
(* A model of scripts/generate_badges.py: the badge generator that turns   *)
(* the version tool's, the build's, the test runner's and the coverage     *)
(* reports' signals into shields.io URLs, stores them in badges/data.json  *)
(* and patches the badge links of README.md.                               *)
(*                                                                         *)
(* Text is modelled as a sequence of tokens.  A token is a string that     *)
(* stands for itself; the text a sequence stands for is the concatenation  *)
(* of its tokens.  The token alphabets are chosen so that no literal the   *)
(* program searches for ("test result:", "#", "](", ...) can arise across  *)
(* a token boundary, which makes a search over tokens the same as the      *)
(* program's search over characters.  Wherever the program reads a number, *)
(* each decimal digit is a token of its own, so a run of digit tokens is a *)
(* number as the program reads it.                                         *)
(* A coverage percentage is a decimal number [m, d]: the value m / 10^d,   *)
(* kept with no trailing zero among its d decimals, so that equal numbers  *)
(* are equal records.  It stands for the float the program holds, which is *)
(* the double nearest to it (exact up to 9 significant digits; -0.0 is not *)
(* among the values).                                                      *)
(***************************************************************************)
EXTENDS Integers, Sequences, FiniteSets, TLC

VARIABLES
    pc,             \* position of the run (each specification has its own)
    verRc,          \* exit code of `cargo pkgid`
    verOut,         \* stdout of `cargo pkgid`
    version,        \* get_cargo_version()'s result
    buildRc,        \* exit code of `cargo check --quiet`
    build_status,   \* generate_build_status()'s result
    testRc,         \* exit code of `cargo test --quiet 2>&1`
    testOut,        \* its stdout, a sequence of lines
    test_results,   \* run_tests()'s result
    cwdSeen,        \* the *.json files of "." the scan has opened, in glob order
    covDirExists,   \* whether the directory "coverage" exists
    covSeen,        \* the coverage/*.json files the scan has opened, in glob order
    tarpCalls,      \* the `cargo tarpaulin` invocations so far, as (exit code, stdout)
    coverage,       \* generate_coverage()'s result
    exc,            \* the exception that left generate_badges(), or "none"
    culprit,        \* the report file whose handling raised exc
    badges,         \* generate_badges()'s dictionary
    test_color,     \* generate_badges()'s local
    coverage_color, \* generate_badges()'s local
    dataJson,       \* badges/data.json: whether it exists, and its "badges"
    readmeExists,   \* whether README.md exists
    readme,         \* the text of README.md
    readme0,        \* the text of README.md before the first update_readme()
    readme1,        \* the text of README.md after the first update_readme()
    runs,           \* the update_readme() calls so far
    log,            \* what update_readme() printed last
    exitCode        \* the exit code of the process, -1 while it runs

vars == << pc, verRc, verOut, version, buildRc, build_status, testRc, testOut,
           test_results, cwdSeen, covDirExists, covSeen, tarpCalls, coverage,
           exc, culprit, badges, test_color, coverage_color, dataJson,
           readmeExists, readme, readme0, readme1, runs, log, exitCode >>

-----------------------------------------------------------------------------
(* Text helpers.                                                           *)

DigitChars == << "0", "1", "2", "3", "4", "5", "6", "7", "8", "9" >>

IsDigit(t) == \E k \in 1..Len(DigitChars) : DigitChars[k] = t

DigitVal(t) == (CHOOSE k \in 1..Len(DigitChars) : DigitChars[k] = t) - 1

\* int(s) of a run of decimal digits.
RECURSIVE IntOf(_)
IntOf(ds) ==
    IF ds = << >> THEN 0
    ELSE 10 * IntOf(SubSeq(ds, 1, Len(ds) - 1)) + DigitVal(ds[Len(ds)])

\* str(n) of a non-negative int, one token per digit.
RECURSIVE StrOf(_)
StrOf(n) ==
    IF n < 10 THEN << DigitChars[n + 1] >>
    ELSE StrOf(n \div 10) \o << DigitChars[(n % 10) + 1] >>

\* `needle in text` for a literal that is one token.
Contains(text, needle) == \E i \in 1..Len(text) : text[i] = needle

\* The end (exclusive) of the longest run of digits that starts at i: \d* at i.
RECURSIVE DigitsEnd(_, _)
DigitsEnd(text, i) ==
    IF i <= Len(text) /\ IsDigit(text[i]) THEN DigitsEnd(text, i + 1) ELSE i

RECURSIVE Pow10(_)
Pow10(d) == IF d = 0 THEN 1 ELSE 10 * Pow10(d - 1)

\* The number m / 10^d.
RECURSIVE Decimal(_, _)
Decimal(m, d) ==
    IF d > 0 /\ m % 10 = 0 THEN Decimal(m \div 10, d - 1)
    ELSE [ m |-> m, d |-> d ]

\* 0.0
Zero == Decimal(0, 0)

\* x >= n and x < n for a float x and an int n.
AtLeast(x, n) == x.m >= n * Pow10(x.d)
Below(x, n) == x.m < n * Pow10(x.d)

-----------------------------------------------------------------------------
(* run_tests(): the Test Result Parser.                                    *)

\* re.search(r'(\d+) passed; (\d+) failed', line) succeeds with its match
\* starting at token i.
PassedFailedAt(line, i) ==
    LET e1 == DigitsEnd(line, i)
        e2 == DigitsEnd(line, e1 + 1)
    IN  /\ e1 > i
        /\ e1 <= Len(line)
        /\ line[e1] = " passed; "
        /\ e2 > e1 + 1
        /\ e2 <= Len(line)
        /\ line[e2] = " failed"

\* The match object of that search: the leftmost match, or "None".
PassedFailedSearch(line) ==
    IF \E i \in 1..Len(line) : PassedFailedAt(line, i)
    THEN LET i  == CHOOSE k \in 1..Len(line) :
                       /\ PassedFailedAt(line, k)
                       /\ \A j \in 1..(k - 1) : ~PassedFailedAt(line, j)
             e1 == DigitsEnd(line, i)
             e2 == DigitsEnd(line, e1 + 1)
         IN  [ found  |-> TRUE,
               group1 |-> SubSeq(line, i, e1 - 1),
               group2 |-> SubSeq(line, e1 + 1, e2 - 1) ]
    ELSE [ found |-> FALSE, group1 |-> << >>, group2 |-> << >> ]

\* A faulty variant of ScanLine: a summary line is taken only while nothing was counted yet.
ScanLineKeepFirst(res, line) ==
    IF Contains(line, "test result:") /\ res.total = 0
    THEN LET m == PassedFailedSearch(line)
         IN  IF m.found
             THEN [ res EXCEPT !.passed = IntOf(m.group1),
                               !.failed = IntOf(m.group2),
                               !.total  = IntOf(m.group1) + IntOf(m.group2) ]
             ELSE res
    ELSE res

\* The body of the loop over the lines of stdout.
ScanLine(res, line) ==
    IF Contains(line, "test result:")
    THEN LET m == PassedFailedSearch(line)
         IN  IF m.found
             THEN [ res EXCEPT !.passed = IntOf(m.group1),
                               !.failed = IntOf(m.group2),
                               !.total  = IntOf(m.group1) + IntOf(m.group2) ]
             ELSE res
    ELSE res

\* The loop `for line in stdout.split('\n')`, from line k on.
RECURSIVE ScanLines(_, _, _)
ScanLines(res, lines, k) ==
    IF k > Len(lines) THEN res
    ELSE ScanLines(ScanLine(res, lines[k]), lines, k + 1)

run_tests(exit_code, stdout) ==
    ScanLines([ status |-> IF exit_code = 0 THEN "passing" ELSE "failing",
                passed |-> 0,
                failed |-> 0,
                total  |-> 0 ],
              stdout, 1)

-----------------------------------------------------------------------------
(* create_badge_url() and the badge descriptors of generate_badges().      *)

\* text.replace(" ", "%20")
RECURSIVE ReplaceSpaces(_)
ReplaceSpaces(text) ==
    IF text = << >> THEN << >>
    ELSE << IF Head(text) = " " THEN "%20" ELSE Head(text) >>
         \o ReplaceSpaces(Tail(text))

create_badge_url(label, message, color) ==
    << "https://img.shields.io/badge/" >> \o ReplaceSpaces(label) \o << "-" >>
        \o ReplaceSpaces(message) \o << "-" >> \o << color >>

\* generate_badges(): test_message
TestMessage(res) ==
    IF res.total > 0 THEN StrOf(res.passed) \o << "%20", "passing" >>
    ELSE << "0", "%20", "tests" >>

\* A faulty variant of TestColor: the colour follows the parsed failure count.
TestColorByCounts(res) ==
    IF res.failed = 0 THEN "brightgreen" ELSE "red"

\* generate_badges(): test_color
TestColor(res) ==
    IF res.status = "passing" THEN "brightgreen" ELSE "red"

\* A faulty variant of CoverageColor: the bands' lower bounds are exclusive.
CoverageColorExclusive(cov) ==
    IF ~Below(cov, 90) /\ cov # Decimal(90, 0) THEN "brightgreen"
    ELSE IF ~Below(cov, 70) /\ cov # Decimal(70, 0) THEN "yellow"
    ELSE "red"

\* generate_badges(): coverage_color
CoverageColor(cov) ==
    IF AtLeast(cov, 90) THEN "brightgreen"
    ELSE IF AtLeast(cov, 70) THEN "yellow"
    ELSE "red"

\* The exponent j of the double that holds num / den: 2^j <= num/den < 2^(j+1).
RECURSIVE BinaryExponent(_, _)
BinaryExponent(num, den) ==
    IF num >= 2 * den THEN BinaryExponent(num, 2 * den) + 1
    ELSE IF num < den THEN BinaryExponent(2 * num, den) - 1
    ELSE 0

\* 2^k mod 5
Pow2Mod5(k) == << 1, 2, 4, 3 >>[(k % 4) + 1]

\* The `.1f` format of the float a / 10^d (a >= 0), as a number of tenths.
\* The format rounds the double the float is, to the nearest tenth and to
\* the even one when the double lies half way.  A decimal that is not half
\* way between two tenths rounds as its double does.  One that is half way,
\* n / 20 with n = 2t + 1, is a double itself when 5 divides n; otherwise
\* its double is the multiple of 2^(j - 52) nearest to it, which lies below
\* it when n * 2^(50 - j) mod 5 is 1 or 2 and above it when that is 3 or 4.
RoundTenths(a, d) ==
    IF d = 0 THEN 10 * a
    ELSE IF d = 1 THEN a
    ELSE LET p == Pow10(d - 1)
             t == a \div p
             r == a % p
             h == p \div 2
             n == 2 * t + 1
         IN  IF r < h THEN t
             ELSE IF r > h THEN t + 1
             ELSE IF n % 5 = 0 THEN (IF t % 2 = 0 THEN t ELSE t + 1)
             ELSE IF ((n % 5) * Pow2Mod5(50 - BinaryExponent(n, 20))) % 5 <= 2
                  THEN t
                  ELSE t + 1

\* f"{coverage:.1f}%25"
CoverageMessage(cov) ==
    (IF cov.m < 0 THEN << "-" >> ELSE << >>)
        \o LET a == IF cov.m < 0 THEN 0 - cov.m ELSE cov.m
               t == RoundTenths(a, cov.d)
           IN  StrOf(t \div 10) \o << "." >> \o StrOf(t % 10) \o << "%25" >>

\* generate_badges(): build_color
BuildColor(status) == IF status = "passing" THEN "brightgreen" ELSE "red"

\* generate_build_status()
generate_build_status(exit_code) ==
    IF exit_code = 0 THEN "passing" ELSE "failing"

-----------------------------------------------------------------------------
(* get_cargo_version(): the Version Resolver.                              *)

IsSpace(t) == t \in { " ", "\n" }

\* str.strip()
RECURSIVE Strip(_)
Strip(text) ==
    IF text = << >> THEN << >>
    ELSE IF IsSpace(Head(text)) THEN Strip(Tail(text))
    ELSE IF IsSpace(text[Len(text)]) THEN Strip(SubSeq(text, 1, Len(text) - 1))
    ELSE text

\* Where `.+$` ends when it starts at token i: the end of the text, or just
\* before a newline that is the text's last character; it matches at least
\* one character and no newline.
DotPlusToEnd(text, i) ==
    LET n    == Len(text)
        last == IF n >= 1 /\ text[n] = "\n" THEN n - 1 ELSE n
    IN  IF i <= last /\ \A k \in i..last : text[k] # "\n" THEN last ELSE 0

\* re.search(r'#(.+)$', text) succeeds with its match starting at token i.
HashAt(text, i) == text[i] = "#" /\ DotPlusToEnd(text, i + 1) # 0

\* match.group(1) if match else "unknown"
HashSearch(text) ==
    IF \E i \in 1..Len(text) : HashAt(text, i)
    THEN LET i == CHOOSE k \in 1..Len(text) :
                      /\ HashAt(text, k)
                      /\ \A j \in 1..(k - 1) : ~HashAt(text, j)
         IN  SubSeq(text, i + 1, DotPlusToEnd(text, i + 1))
    ELSE << "unknown" >>

\* The exit code of `cargo pkgid` is read into `_` and never looked at.
get_cargo_version(exit_code, stdout) == HashSearch(Strip(stdout))

-----------------------------------------------------------------------------
(* generate_coverage(): the Coverage Resolver.                             *)
(*                                                                         *)
(* A report file is [kind, has, vtype, val]: kind is what json.load makes   *)
(* of it ("malformed" when it raises JSONDecodeError, "dangling" when      *)
(* open() raises FileNotFoundError), has is whether 'coverage' in data     *)
(* holds for a dict (a key), a list (an element) or a str (a substring),   *)
(* and data['coverage'] of a dict is of JSON type vtype: the number val,   *)
(* a "string" or "null".                                                   *)

Continue == [ kind |-> "next" ]
Return(v) == [ kind |-> "return", val |-> v ]
Raise(e) == [ kind |-> "raise", exc |-> e ]

\* The body of the try statement for one report file.
ReadReport(f) ==
    CASE f.kind = "dangling"  -> Raise("FileNotFoundError")
      [] f.kind = "malformed" -> Raise("JSONDecodeError")
      [] f.kind \in { "number", "null" } -> Raise("TypeError")
      [] f.kind \in { "array", "string" } ->
            IF f.has THEN Raise("TypeError") ELSE Continue
      [] f.kind = "object" ->
            IF ~f.has THEN Continue
            ELSE IF f.vtype = "number" THEN Return(f.val)
            ELSE IF f.vtype = "string" THEN Raise("ValueError")
            ELSE Raise("TypeError")

\* The try statement with its except clause: `continue` for the caught ones.
TryReport(f, caught) ==
    LET r == ReadReport(f)
    IN  IF r.kind = "raise" /\ r.exc \in caught THEN Continue ELSE r

CwdCaught == { "JSONDecodeError", "KeyError", "FileNotFoundError" }

CovCaught == { "JSONDecodeError", "KeyError" }

\* line.lower(), token by token.
LowerTok(t) == IF t \in { "Coverage", "COVERAGE" } THEN "coverage" ELSE t

\* re.search(r'(\d+\.?\d*)%', line) succeeds with its match starting at i;
\* the result is the end (exclusive) of group 1, or 0.
PercentAt(line, i) ==
    LET e1 == DigitsEnd(line, i)
        e2 == IF e1 <= Len(line) /\ line[e1] = "."
              THEN DigitsEnd(line, e1 + 1) ELSE e1
    IN  IF e1 > i /\ e2 <= Len(line) /\ line[e2] = "%" THEN e2
        ELSE IF e1 > i /\ e1 <= Len(line) /\ line[e1] = "%" THEN e1
        ELSE 0

\* float(match.group(1)) of a text that matches \d+\.?\d*
FloatOf(text) ==
    LET e1   == DigitsEnd(text, 1)
        frac == IF e1 < Len(text) THEN SubSeq(text, e1 + 1, Len(text))
                ELSE << >>
    IN  Decimal(IntOf(SubSeq(text, 1, e1 - 1) \o frac), Len(frac))

\* The body of the loop over the lines of tarpaulin's stdout.
CoverageOfLine(line) ==
    IF /\ Contains(line, "%")
       /\ \E i \in 1..Len(line) : LowerTok(line[i]) = "coverage"
       /\ \E i \in 1..Len(line) : PercentAt(line, i) # 0
    THEN LET i == CHOOSE k \in 1..Len(line) :
                      /\ PercentAt(line, k) # 0
                      /\ \A j \in 1..(k - 1) : PercentAt(line, j) = 0
         IN  Return(FloatOf(SubSeq(line, i, PercentAt(line, i) - 1)))
    ELSE Continue

\* The loop over the lines, from line k on; 0.0 when no line returns.
RECURSIVE CoverageOfLines(_, _)
CoverageOfLines(lines, k) ==
    IF k > Len(lines) THEN Zero
    ELSE IF CoverageOfLine(lines[k]).kind = "return"
         THEN CoverageOfLine(lines[k]).val
         ELSE CoverageOfLines(lines, k + 1)

\* generate_coverage() from the tarpaulin run on.
CoverageOfTarpaulin(exit_code, stdout) ==
    IF exit_code = 0 THEN CoverageOfLines(stdout, 1) ELSE Zero

-----------------------------------------------------------------------------
(* update_readme(): the Documentation Patcher.                             *)
(*                                                                         *)
(* In a document the opening of a badge, "[![Coverage" (and likewise for   *)
(* the other labels), is one token; "]", "[", "(", ")" and the newline are *)
(* tokens of their own.                                                    *)

Opener(label) == "[![" \o label

Labels == << "Coverage", "Build Status", "Tests", "Version" >>

\* The key of the badge dictionary that goes with each label.
BadgeOf(b, label) ==
    CASE label = "Coverage"     -> b.coverage
      [] label = "Build Status" -> b.build
      [] label = "Tests"        -> b.tests
      [] label = "Version"      -> b.version

\* Where `.*?\]\(` ends when it starts at token from: the index of the "]" of
\* the first "](" that no newline separates from there, or 0.
LinkOpen(doc, from) ==
    LET ok(j) == /\ doc[j] = "]"
                 /\ doc[j + 1] = "("
                 /\ \A m \in from..(j - 1) : doc[m] # "\n"
    IN  IF \E j \in from..(Len(doc) - 1) : ok(j)
        THEN CHOOSE j \in from..(Len(doc) - 1) :
                 ok(j) /\ \A m \in from..(j - 1) : ~ok(m)
        ELSE 0

\* Where `[^)]*\)` ends when it starts at token from: the first ")", or 0.
CloseParen(doc, from) ==
    IF \E k \in from..Len(doc) : doc[k] = ")"
    THEN CHOOSE k \in from..Len(doc) :
             doc[k] = ")" /\ \A m \in from..(k - 1) : doc[m] # ")"
    ELSE 0

\* The last token of the match of r'\[!\[<label>\].*?\]\([^)]*\)' that starts
\* at token i, or 0 when there is none.
PatternEnd(doc, i, label) ==
    IF /\ i + 1 <= Len(doc)
       /\ doc[i] = Opener(label)
       /\ doc[i + 1] = "]"
       /\ LinkOpen(doc, i + 2) # 0
    THEN CloseParen(doc, LinkOpen(doc, i + 2) + 2)
    ELSE 0

\* f'[![<label>]({url})](#)'
Replacement(label, url) ==
    << Opener(label), "]", "(" >> \o url \o << ")", "]", "(", "#", ")" >>

\* re.sub(pattern, replacement, content), from token i on.
RECURSIVE ReSub(_, _, _, _)
ReSub(doc, i, label, repl) ==
    IF i > Len(doc) THEN << >>
    ELSE IF PatternEnd(doc, i, label) # 0
         THEN repl \o ReSub(doc, PatternEnd(doc, i, label) + 1, label, repl)
         ELSE << doc[i] >> \o ReSub(doc, i + 1, label, repl)

\* The loop over the four replacements, from the k-th on.
RECURSIVE ApplyReplacements(_, _, _)
ApplyReplacements(content, b, k) ==
    IF k > Len(Labels) THEN content
    ELSE ApplyReplacements(
             ReSub(content, 1, Labels[k], Replacement(Labels[k], BadgeOf(b, Labels[k]))),
             b, k + 1)

\* The text update_readme() writes back.
update_readme(content, b) == ApplyReplacements(content, b, 1)

-----------------------------------------------------------------------------
(* The inputs: what the tools print, the report files, the documents.      *)

MaxVersionLen == 4
MaxTestLines == 2
MaxFiles == 2
MaxTarpLines == 2
MaxPieces == 3
MaxRuns == 2
MaxCoverage == 110

SeqsUpTo(S, lo, hi) == UNION { [1..n -> S] : n \in lo..hi }

\* `cargo pkgid`
VersionTokens == { "#", "\n", " ", "pkg", "1.2.3" }
VersionOutputs == SeqsUpTo(VersionTokens, 0, MaxVersionLen)
VersionExitCodes == { 0, 101 }

\* `cargo check --quiet`
BuildExitCodes == { 0, 101 }

\* `cargo test --quiet 2>&1`: a line is an optional marker, a summary phrase
\* (some of them broken) and an optional second summary.
TestHeads == { << >>, << "test result:", " ok. " >> }
TestPhrases ==
    { << >>,
      << "1", "3", " passed; ", "0", " failed" >>,
      << "5", " passed; ", "1", " failed" >>,
      << "0", " passed; ", "0", " failed" >>,
      << " passed; ", "2", " failed" >>,
      << "7", " passed; ", " failed" >>,
      << "4", " passed, ", "0", " failed" >> }
TestTails == { << >>, << "; ", "2", " passed; ", "9", " failed" >> }
TestLines == { h \o p \o t : h \in TestHeads, p \in TestPhrases, t \in TestTails }
TestOutputs == SeqsUpTo(TestLines, 1, MaxTestLines)
TestExitCodes == { 0, 1, 101 }

\* The *.json files a directory may hold.
Report(k, h, t, v) == [ kind |-> k, has |-> h, vtype |-> t, val |-> v ]
NoReport == Report("none", FALSE, "none", Zero)
Reports ==
    { Report("malformed", FALSE, "none", Zero),           \* {"coverage":
      Report("dangling", FALSE, "none", Zero),            \* a link to nowhere
      Report("object", FALSE, "none", Zero),              \* {"lines": 10}
      Report("object", TRUE, "number", Decimal(875, 1)),  \* {"coverage": 87.5}
      Report("object", TRUE, "number", Decimal(150, 0)),  \* {"coverage": 150.0}
      Report("object", TRUE, "number", Decimal(-25, 1)),  \* {"coverage": -2.5}
      Report("object", TRUE, "string", Zero),             \* {"coverage": "87.5%"}
      Report("object", TRUE, "null", Zero),               \* {"coverage": null}
      Report("array", FALSE, "none", Zero),               \* []
      Report("array", TRUE, "none", Zero),                \* ["coverage"]
      Report("string", FALSE, "none", Zero),              \* "report"
      Report("string", TRUE, "none", Zero),               \* "no coverage"
      Report("number", FALSE, "none", Zero),              \* 42
      Report("null", FALSE, "none", Zero) }               \* null

\* `cargo tarpaulin --skip-clean --engine llvm`
TarpLines ==
    { << "8", "7", ".", "5", "0", "%", " ", "coverage", ", 1/2 lines covered" >>,
      << "Coverage", ": ", "2", "5", "0", "%" >>,
      << "coverage", " ", "1", "2", ".", "%" >>,
      << "%", " ", "coverage", " ", "5" >>,
      << "5", "0", "%", " done" >> }
TarpOutputs == SeqsUpTo(TarpLines, 1, MaxTarpLines)
TarpExitCodes == { 0, 1 }

\* README.md: badges with an inline link, badges with a reference link,
\* prose and line ends.
InlineBadge(label) ==
    << Opener(label), "]", "(", "old", ")", "]", "(", "link", ")" >>
RefBadge(label) ==
    << Opener(label), "]", "(", "old", ")", "]", "[", "ref", "]" >>
Pieces ==
    { InlineBadge(Labels[k]) : k \in 1..Len(Labels) }
        \cup { RefBadge(Labels[k]) : k \in 1..Len(Labels) }
        \cup { << "prose" >>, << "\n" >> }

RECURSIVE Flatten(_)
Flatten(ps) == IF ps = << >> THEN << >> ELSE Head(ps) \o Flatten(Tail(ps))

Docs == { Flatten(ps) : ps \in SeqsUpTo(Pieces, 0, MaxPieces) }

\* The badge dictionaries update_readme() is given: the URLs of a usual run,
\* and a version URL made from a version text that holds "](".
UsualBadges ==
    [ version  |-> create_badge_url(<< "version" >>, << "v", "1.2.3" >>, "blue"),
      build    |-> create_badge_url(<< "build" >>, << "passing" >>, "brightgreen"),
      tests    |-> create_badge_url(<< "tests" >>, << "5", "%20", "passing" >>, "red"),
      coverage |-> create_badge_url(<< "coverage" >>, CoverageMessage(Decimal(875, 1)), "yellow") ]
BadgeSets ==
    { UsualBadges,
      [ UsualBadges EXCEPT !.version =
          create_badge_url(<< "version" >>, << "v", "1", "]", "(", "2" >>, "blue") ] }

NoBadges == [ version |-> << >>, build |-> << >>, tests |-> << >>, coverage |-> << >> ]
NoResults == [ status |-> "unset", passed |-> 0, failed |-> 0, total |-> 0 ]

-----------------------------------------------------------------------------
(* The steps of main(): generate_badges(), save_badge_data(),              *)
(* update_readme(), and the two ways out.                                  *)

verVars == << verRc, verOut, version >>
buildVars == << buildRc, build_status >>
testVars == << testRc, testOut, test_results, test_color >>
scanVars == << cwdSeen, covDirExists, covSeen, tarpCalls >>
covVars == << coverage, coverage_color >>
errVars == << exc, culprit >>
readmeVars == << readmeExists, readme, readme0, readme1, runs, log >>

\* version = get_cargo_version(); badges["version"] = ...
GetCargoVersion ==
    /\ pc = "version"
    /\ version' = get_cargo_version(verRc, verOut)
    /\ badges' = [ badges EXCEPT !.version =
                     create_badge_url(<< "version" >>, << "v" >> \o version', "blue") ]
    /\ pc' = "build"
    /\ UNCHANGED << verRc, verOut, buildVars, testVars, scanVars, covVars,
                    errVars, dataJson, readmeVars, exitCode >>

\* build_status = generate_build_status(); badges["build"] = ...
GenerateBuildStatus ==
    /\ pc = "build"
    /\ build_status' = generate_build_status(buildRc)
    /\ badges' = [ badges EXCEPT !.build =
                     create_badge_url(<< "build" >>, << build_status' >>,
                                      BuildColor(build_status')) ]
    /\ pc' = "tests"
    /\ UNCHANGED << verVars, buildRc, testVars, scanVars, covVars, errVars,
                    dataJson, readmeVars, exitCode >>

\* test_results = run_tests()
RunTests ==
    /\ pc = "tests"
    /\ test_results' = run_tests(testRc, testOut)
    /\ pc' = "tests_badge"
    /\ UNCHANGED << verVars, buildVars, testRc, testOut, test_color, scanVars,
                    covVars, errVars, badges, dataJson, readmeVars, exitCode >>

\* test_message, test_color and badges["tests"]
TestsBadge ==
    /\ pc = "tests_badge"
    /\ test_color' = TestColor(test_results)
    /\ badges' = [ badges EXCEPT !.tests =
                     create_badge_url(<< "tests" >>, TestMessage(test_results),
                                      test_color') ]
    /\ pc' = "cov_cwd"
    /\ UNCHANGED << verVars, buildVars, testRc, testOut, test_results, scanVars,
                    covVars, errVars, dataJson, readmeVars, exitCode >>

\* What one report file does to generate_coverage(): the loop goes on, the
\* function returns, or the exception leaves it (and generate_badges()).
AfterReport(r, f, stay) ==
    CASE r.kind = "next"   -> /\ pc' = stay
                              /\ UNCHANGED << coverage, exc, culprit >>
      [] r.kind = "return" -> /\ pc' = "cov_badge"
                              /\ coverage' = r.val
                              /\ UNCHANGED << exc, culprit >>
      [] r.kind = "raise"  -> /\ pc' = "failed"
                              /\ exc' = r.exc
                              /\ culprit' = f
                              /\ UNCHANGED coverage

\* generate_coverage(): one turn of the loop over Path(".").glob("*.json"),
\* or its end.
ScanCwd ==
    /\ pc = "cov_cwd"
    /\ \/ /\ pc' = "cov_dir"
          /\ UNCHANGED << cwdSeen, coverage, exc, culprit >>
       \/ \E f \in Reports :
            /\ Len(cwdSeen) < MaxFiles
            /\ cwdSeen' = Append(cwdSeen, f)
            /\ AfterReport(TryReport(f, CwdCaught), f, "cov_cwd")
    /\ UNCHANGED << verVars, buildVars, testVars, covDirExists, covSeen,
                    tarpCalls, coverage_color, badges, dataJson, readmeVars,
                    exitCode >>

\* generate_coverage(): coverage_dir.exists(), and one turn of the loop over
\* coverage_dir.glob("*.json"), or its end.
ScanCovDir ==
    /\ pc = "cov_dir"
    /\ \/ /\ ~covDirExists
          /\ pc' = "cov_tool"
          /\ UNCHANGED << covSeen, coverage, exc, culprit >>
       \/ /\ covDirExists
          /\ pc' = "cov_tool"
          /\ UNCHANGED << covSeen, coverage, exc, culprit >>
       \/ \E f \in Reports :
            /\ covDirExists
            /\ Len(covSeen) < MaxFiles
            /\ covSeen' = Append(covSeen, f)
            /\ AfterReport(TryReport(f, CovCaught), f, "cov_dir")
    /\ UNCHANGED << verVars, buildVars, testVars, cwdSeen, covDirExists,
                    tarpCalls, coverage_color, badges, dataJson, readmeVars,
                    exitCode >>

\* generate_coverage(): the tarpaulin run and the scan of its output.
RunTarpaulinOn(outputs) ==
    /\ pc = "cov_tool"
    /\ \E rc \in TarpExitCodes, out \in outputs :
         /\ tarpCalls' = Append(tarpCalls, [ exit_code |-> rc, stdout |-> out ])
         /\ coverage' = CoverageOfTarpaulin(rc, out)
    /\ pc' = "cov_badge"
    /\ UNCHANGED << verVars, buildVars, testVars, cwdSeen, covDirExists, covSeen,
                    coverage_color, errVars, badges, dataJson, readmeVars,
                    exitCode >>

RunTarpaulin == RunTarpaulinOn(TarpOutputs)

\* coverage_color and badges["coverage"]
CoverageBadge ==
    /\ pc = "cov_badge"
    /\ coverage_color' = CoverageColor(coverage)
    /\ badges' = [ badges EXCEPT !.coverage =
                     create_badge_url(<< "coverage" >>, CoverageMessage(coverage),
                                      coverage_color') ]
    /\ pc' = "save"
    /\ UNCHANGED << verVars, buildVars, testVars, scanVars, coverage, errVars,
                    dataJson, readmeVars, exitCode >>

\* save_badge_data(badges)
SaveBadgeData ==
    /\ pc = "save"
    /\ dataJson' = [ exists |-> TRUE, badges |-> badges ]
    /\ pc' = "readme"
    /\ UNCHANGED << verVars, buildVars, testVars, scanVars, covVars, errVars,
                    badges, readmeVars, exitCode >>

\* update_readme(badges)
UpdateReadme ==
    /\ pc = "readme"
    /\ \/ /\ ~readmeExists
          /\ log' = "README.md not found"
          /\ UNCHANGED << readme, readme1 >>
       \/ /\ readmeExists
          /\ readme' = update_readme(readme, badges)
          /\ readme1' = IF runs = 0 THEN readme' ELSE readme1
          /\ log' = "README.md updated with new badges"
    /\ runs' = runs + 1
    /\ pc' = "finish"
    /\ UNCHANGED << verVars, buildVars, testVars, scanVars, covVars, errVars,
                    badges, dataJson, readmeExists, readme0, exitCode >>

\* main() returns: the process ends with exit code 0.
Finish ==
    /\ pc = "finish"
    /\ exitCode' = 0
    /\ pc' = "exited"
    /\ UNCHANGED << verVars, buildVars, testVars, scanVars, covVars, errVars,
                    badges, dataJson, readmeVars >>

\* main(): except Exception ... sys.exit(1)
ErrorExit ==
    /\ pc = "failed"
    /\ exitCode' = 1
    /\ pc' = "exited"
    /\ UNCHANGED << verVars, buildVars, testVars, scanVars, covVars, errVars,
                    badges, dataJson, readmeVars >>

\* The script is run again, its badge dictionary being the same.
Rerun ==
    /\ pc = "finish"
    /\ runs < MaxRuns
    /\ pc' = "readme"
    /\ UNCHANGED << verVars, buildVars, testVars, scanVars, covVars, errVars,
                    badges, dataJson, readmeVars, exitCode >>

-----------------------------------------------------------------------------
(* The specifications.  Each starts the run where its part of the program  *)
(* starts, with that part's inputs drawn from the sets above and the rest  *)
(* of the state idle.                                                      *)

VersionIdle == verRc = 0 /\ verOut = << >> /\ version = << >>
BuildIdle == buildRc = 0 /\ build_status = "unset"
TestsIdle == testRc = 0 /\ testOut = << >>
ScanIdle == cwdSeen = << >> /\ covSeen = << >> /\ tarpCalls = << >>
Untouched ==
    /\ test_results = NoResults
    /\ test_color = "unset"
    /\ coverage_color = "unset"
    /\ exc = "none"
    /\ culprit = NoReport
    /\ dataJson = [ exists |-> FALSE, badges |-> NoBadges ]
    /\ readme1 = << >>
    /\ runs = 0
    /\ log = ""
    /\ exitCode = -1

\* The whole run of main().
MainVersionRuns ==
    { << 0, << "pkg", "#", "1.2.3", "\n" >> >>, << 101, << >> >> }
MainTestRuns ==
    { << 0, << << "test result:", " ok. ", "1", "3", " passed; ", "0", " failed" >> >> >>,
      << 101, << << "test result:", " ok. ", "5", " passed; ", "1", " failed" >> >> >> }
MainDoc == InlineBadge("Coverage") \o << "\n", "prose" >>
MainTarpOutputs == SeqsUpTo(TarpLines, 1, 1)

Init ==
    /\ pc = "version"
    /\ \E v \in MainVersionRuns : verRc = v[1] /\ verOut = v[2]
    /\ version = << >>
    /\ buildRc \in BuildExitCodes
    /\ build_status = "unset"
    /\ \E t \in MainTestRuns : testRc = t[1] /\ testOut = t[2]
    /\ covDirExists \in BOOLEAN
    /\ ScanIdle
    /\ coverage = Zero
    /\ badges = NoBadges
    /\ readmeExists \in BOOLEAN
    /\ readme = IF readmeExists THEN MainDoc ELSE << >>
    /\ readme0 = readme
    /\ Untouched

RunTarpaulinMain == RunTarpaulinOn(MainTarpOutputs)

Next ==
    \/ GetCargoVersion
    \/ GenerateBuildStatus
    \/ RunTests
    \/ TestsBadge
    \/ ScanCwd
    \/ ScanCovDir
    \/ RunTarpaulinMain
    \/ CoverageBadge
    \/ SaveBadgeData
    \/ UpdateReadme
    \/ Finish
    \/ ErrorExit

Spec == Init /\ [][Next]_vars

\* get_cargo_version() on every output of the version tool.
InitVersion ==
    /\ pc = "version"
    /\ verRc \in VersionExitCodes
    /\ verOut \in VersionOutputs
    /\ version = << >>
    /\ BuildIdle /\ TestsIdle /\ ScanIdle
    /\ covDirExists = FALSE
    /\ coverage = Zero
    /\ badges = NoBadges
    /\ readmeExists = FALSE /\ readme = << >> /\ readme0 = << >>
    /\ Untouched

NextVersion == GetCargoVersion

SpecVersion == InitVersion /\ [][NextVersion]_vars

\* run_tests() and the tests badge on every output of the test runner.
InitTests ==
    /\ pc = "tests"
    /\ testRc \in TestExitCodes
    /\ testOut \in TestOutputs
    /\ VersionIdle /\ BuildIdle /\ ScanIdle
    /\ covDirExists = FALSE
    /\ coverage = Zero
    /\ badges = NoBadges
    /\ readmeExists = FALSE /\ readme = << >> /\ readme0 = << >>
    /\ Untouched

NextTests == RunTests \/ TestsBadge

SpecTests == InitTests /\ [][NextTests]_vars

\* generate_coverage() on every listing of the two directories and every
\* outcome of the tarpaulin run.
InitCoverage ==
    /\ pc = "cov_cwd"
    /\ covDirExists \in BOOLEAN
    /\ VersionIdle /\ BuildIdle /\ TestsIdle /\ ScanIdle
    /\ coverage = Zero
    /\ badges = NoBadges
    /\ readmeExists = FALSE /\ readme = << >> /\ readme0 = << >>
    /\ Untouched

NextCoverage == ScanCwd \/ ScanCovDir \/ RunTarpaulin

SpecCoverage == InitCoverage /\ [][NextCoverage]_vars

\* The coverage badge on every coverage value.
InitBadge ==
    /\ pc = "cov_badge"
    /\ coverage \in { Decimal(n, 2) :
                         n \in (0 - 100 * MaxCoverage)..(100 * MaxCoverage) }
    /\ VersionIdle /\ BuildIdle /\ TestsIdle /\ ScanIdle
    /\ covDirExists = FALSE
    /\ badges = NoBadges
    /\ readmeExists = FALSE /\ readme = << >> /\ readme0 = << >>
    /\ Untouched

NextBadge == CoverageBadge

SpecBadge == InitBadge /\ [][NextBadge]_vars

\* update_readme() on every document and badge dictionary, run after run.
InitReadme ==
    /\ pc = "readme"
    /\ badges \in BadgeSets
    /\ readmeExists \in BOOLEAN
    /\ readme \in (IF readmeExists THEN Docs ELSE { << >> })
    /\ readme0 = readme
    /\ VersionIdle /\ BuildIdle /\ TestsIdle /\ ScanIdle
    /\ covDirExists = FALSE
    /\ coverage = Zero
    /\ Untouched

NextReadme == UpdateReadme \/ Rerun

SpecReadme == InitReadme /\ [][NextReadme]_vars

-----------------------------------------------------------------------------
(* The properties.                                                         *)

\* The lines of the test runner's output that hold "test result:" and match
\* "<N> passed; <M> failed".
SummaryLines ==
    { k \in 1..Len(testOut) :
        /\ Contains(testOut[k], "test result:")
        /\ PassedFailedSearch(testOut[k]).found }

LastSummary == CHOOSE k \in SummaryLines : \A j \in SummaryLines : j <= k

\* The counts a line reports in its first "<N> passed; <M> failed".
CountsOf(line) ==
    << IntOf(PassedFailedSearch(line).group1),
       IntOf(PassedFailedSearch(line).group2) >>

TestsRan == pc \in { "tests_badge", "cov_cwd" }

\* C3: run_tests() returns the counts of the last line of the output that
\* holds "test result:" and matches "<N> passed; <M> failed", whatever the
\* earlier such lines said, and zeros when no line does; total is always
\* passed + failed.
C3_LastSummaryWins ==
    TestsRan =>
        /\ test_results.total = test_results.passed + test_results.failed
        /\ IF SummaryLines = { }
           THEN test_results.passed = 0 /\ test_results.failed = 0
                    /\ test_results.total = 0
           ELSE << test_results.passed, test_results.failed >>
                    = CountsOf(testOut[LastSummary])

\* Two summary lines with different counts were read, and the last one's
\* counts were returned.
C3_Witness ==
    /\ TestsRan
    /\ \E j \in SummaryLines :
         /\ j < LastSummary
         /\ CountsOf(testOut[j]) # CountsOf(testOut[LastSummary])
         /\ CountsOf(testOut[j])[1] + CountsOf(testOut[j])[2] > 0
    /\ << test_results.passed, test_results.failed >>
           = CountsOf(testOut[LastSummary])

\* The colour the exit code of the test runner calls for.
ColorOfExit == IF testRc = 0 THEN "brightgreen" ELSE "red"

\* The message the parsed counts call for, before the URL encoding.
MessageOfCounts ==
    IF test_results.passed + test_results.failed > 0
    THEN StrOf(test_results.passed) \o << " ", "passing" >>
    ELSE << "0", " ", "tests" >>

\* C4: the tests badge is brightgreen iff the test runner's exit code is 0
\* and red otherwise, whatever the parsed counts are, and its message is
\* "<passed> passing" when passed + failed > 0 and "0 tests" otherwise.
C4_TestsBadge ==
    pc = "cov_cwd" =>
        /\ test_color = ColorOfExit
        /\ badges.tests
               = create_badge_url(<< "tests" >>, MessageOfCounts, ColorOfExit)

\* A run whose summary reports failures and whose exit code is 0 got a
\* brightgreen badge.
C4_Witness ==
    /\ pc = "cov_cwd"
    /\ testRc = 0
    /\ test_results.failed > 0
    /\ test_color = "brightgreen"
    /\ badges.tests[Len(badges.tests)] = "brightgreen"

\* C6: the coverage badge is brightgreen for every value >= 90, yellow for
\* every value >= 70 and < 90, red for every value < 70.
C6_CoverageBands ==
    pc = "save" =>
        /\ coverage.m >= 90 * Pow10(coverage.d) => coverage_color = "brightgreen"
        /\ (/\ coverage.m >= 70 * Pow10(coverage.d)
            /\ coverage.m < 90 * Pow10(coverage.d)) => coverage_color = "yellow"
        /\ coverage.m < 70 * Pow10(coverage.d) => coverage_color = "red"
        /\ badges.coverage[Len(badges.coverage)] = coverage_color

\* The badge of 90.0 is brightgreen.
C6_Witness ==
    /\ pc = "save"
    /\ coverage = Decimal(90, 0)
    /\ coverage_color = "brightgreen"
    /\ badges.coverage
           = create_badge_url(<< "coverage" >>, << "9", "0", ".", "0", "%25" >>,
                              "brightgreen")

\* The index of the last "#" of a text that holds one.
LastHash(text) ==
    CHOOSE k \in 1..Len(text) :
        text[k] = "#" /\ \A j \in (k + 1)..Len(text) : text[j] # "#"

\* C5: get_cargo_version() returns what follows the last "#" of the trimmed
\* output of the version tool, and "unknown" when the output holds no "#" or
\* the tool failed.  (An output that ends in its last "#" is left open.)
C5_AfterLastHash ==
    pc = "build" =>
        LET text == Strip(verOut)
        IN  IF verRc # 0 \/ ~Contains(text, "#")
            THEN version = << "unknown" >>
            ELSE LastHash(text) < Len(text) =>
                     version = SubSeq(text, LastHash(text) + 1, Len(text))

\* Whether a report file has the field "coverage".
HasField(f) == f.kind = "object" /\ f.has

FirstWithField(files) ==
    CHOOSE k \in 1..Len(files) :
        HasField(files[k]) /\ \A j \in 1..(k - 1) : ~HasField(files[j])

\* The value the layers call for, in their order.
Layered ==
    IF \E k \in 1..Len(cwdSeen) : HasField(cwdSeen[k])
    THEN cwdSeen[FirstWithField(cwdSeen)].val
    ELSE IF \E k \in 1..Len(covSeen) : HasField(covSeen[k])
    THEN covSeen[FirstWithField(covSeen)].val
    ELSE IF tarpCalls # << >>
    THEN CoverageOfTarpaulin(tarpCalls[1].exit_code, tarpCalls[1].stdout)
    ELSE Zero

\* C1: for every listing of the two directories and every outcome of the
\* tool, generate_coverage() ends with the value of the first file of "."
\* that has the field, else of the first file of coverage/ that has it, else
\* the percentage of the tool's output, else 0.0; and the tool is run only
\* when no file of either directory had the field.
C1_LayersInOrder ==
    /\ pc # "failed"
    /\ pc = "cov_badge" => coverage = Layered
    /\ tarpCalls # << >> =>
           /\ \A k \in 1..Len(cwdSeen) : ~HasField(cwdSeen[k])
           /\ \A k \in 1..Len(covSeen) : ~HasField(covSeen[k])
           /\ Len(tarpCalls) = 1

\* C7: every value generate_coverage() returns is in [0.0, 100.0].
C7_CoverageInRange ==
    pc = "cov_badge" =>
        (coverage.m >= 0 /\ coverage.m <= 100 * Pow10(coverage.d))

\* A report file that cannot be used: malformed JSON, or JSON of any shape
\* whose "coverage" is not a number that is there.
Unusable(f) ==
    \/ f.kind = "malformed"
    \/ /\ f.kind \in { "object", "array", "string", "number", "null" }
       /\ ~(f.kind = "object" /\ f.has /\ f.vtype = "number")

\* C8: a report file that cannot be used is skipped: none makes
\* generate_coverage() raise, and no run ends in the error exit over one.
C8_UnusableReportSkipped ==
    (pc = "exited" /\ exitCode # 0) => ~Unusable(culprit)

\* C10: in every run without a README.md, badges/data.json is written
\* before update_readme() is called, update_readme() writes nothing and
\* prints its warning, and the run ends with exit code 0.
C10_MissingReadmeIsNoFailure ==
    ~readmeExists =>
        /\ runs > 0 => /\ dataJson.exists
                       /\ log = "README.md not found"
                       /\ readme = readme0
        /\ pc = "exited" => (exitCode = 0 /\ dataJson.exists /\ runs = 1)

\* C2: update_readme() run a second time with the same badge dictionary
\* leaves the text the first run wrote.
C2_PatchIsIdempotent ==
    (readmeExists /\ runs >= 2) => readme = readme1

IsOpener(t) == \E k \in 1..Len(Labels) : t = Opener(Labels[k])

\* A token of a URL or of a link's target or name.
Plain(t) == t \notin { "]", "[", "(", ")", "\n" } /\ ~IsOpener(t)

RECURSIVE PlainEnd(_, _)
PlainEnd(doc, i) ==
    IF i <= Len(doc) /\ Plain(doc[i]) THEN PlainEnd(doc, i + 1) ELSE i

\* The last token of the badge that starts at token i, or 0: an image whose
\* text is one of the four labels, inside a link that is given inline,
\* [![Label](url)](target), or by reference, [![Label](url)][name].
BadgeEnd(doc, i) ==
    IF i + 2 <= Len(doc) /\ IsOpener(doc[i]) /\ doc[i + 1] = "]" /\ doc[i + 2] = "("
    THEN LET a == PlainEnd(doc, i + 3)
         IN  IF a + 2 <= Len(doc) /\ doc[a] = ")" /\ doc[a + 1] = "]"
                  /\ doc[a + 2] \in { "(", "[" }
             THEN LET b == PlainEnd(doc, a + 3)
                  IN  IF b <= Len(doc)
                           /\ doc[b] = (IF doc[a + 2] = "(" THEN ")" ELSE "]")
                      THEN b ELSE 0
             ELSE 0
    ELSE 0

\* The document with each badge shrunk to its opening token: what is left
\* is every character outside the badges, in order, and which badge stands
\* where.
RECURSIVE Skeleton(_, _)
Skeleton(doc, i) ==
    IF i > Len(doc) THEN << >>
    ELSE IF BadgeEnd(doc, i) # 0
         THEN << doc[i] >> \o Skeleton(doc, BadgeEnd(doc, i) + 1)
         ELSE << doc[i] >> \o Skeleton(doc, i + 1)

\* C9: update_readme() changes only the four labelled badges: every
\* character outside them is the same, in the same order, in its output, and
\* the substitution for one label leaves the badges of the others in place.
C9_OnlyBadgesChange ==
    (readmeExists /\ runs >= 1 /\ badges = UsualBadges) =>
        Skeleton(readme1, 1) = Skeleton(readme0, 1)

-----------------------------------------------------------------------------
(***************************************************************************)
(* What the program does keep of the statements above that it breaks.      *)
(***************************************************************************)

\* Whenever generate_coverage() returns, its value is the one the layers
\* call for, and the tool ran once, after both scans found nothing.
LayersInOrderWhenReturned ==
    /\ pc = "cov_badge" => coverage = Layered
    /\ tarpCalls # << >> =>
           /\ \A k \in 1..Len(cwdSeen) : ~HasField(cwdSeen[k])
           /\ \A k \in 1..Len(covSeen) : ~HasField(covSeen[k])
           /\ Len(tarpCalls) = 1

\* An exception leaves generate_coverage() only on a file that is unusable
\* or, in coverage/, cannot be opened.
RaisedOnlyOnBadFile ==
    exc # "none" =>
        \/ \E k \in 1..Len(cwdSeen) : Unusable(cwdSeen[k])
        \/ \E k \in 1..Len(covSeen) :
               Unusable(covSeen[k]) \/ covSeen[k].kind = "dangling"

\* A run of main() that no exception has left treats a missing README.md
\* as a warning.
MissingReadmeWhenNothingRaised ==
    exc = "none" => C10_MissingReadmeIsNoFailure

\* With badge URLs that hold no "](", a second patch changes nothing.
IdempotentOnUsualBadges ==
    badges = UsualBadges => C2_PatchIsIdempotent

\* A document without reference-style badges is patched within its badges.
OnlyBadgesChangeWithoutReferences ==
    (\A k \in 1..Len(readme0) : readme0[k] # "[") => C9_OnlyBadgesChange

=============================================================================
